---------------------------- MODULE Spec2Model ----------------------------
(***************************************************************************)
(* A model of the ComfyUI-J diffusers nodes (src/__init__.py): the latent  *)
(* initialiser, the decoder adapter, the letterbox resize, the ControlNet  *)
(* unit stack and the DiffusersGenerator node.                             *)
(*                                                                         *)
(* Tensors are records [shape, data, device, dtype]: data is the row-major *)
(* flattening of the elements.  Real numbers are integers in a fixed unit  *)
(* that each section states.                                               *)
(***************************************************************************)
EXTENDS Integers, Sequences, FiniteSets, TLC

VARIABLES
    plArgs,     \* the arguments of the current prepare_latents call
    plRes,      \* what that call returned or raised, and the generators after it
    rzIn,       \* resize_with_padding: the source image and the target size
    rzOut,      \* its result, and the result of applying it to that result
    decIn,      \* latents_to_img_tensor: the latents and what the VAE decodes them to
    decOut,     \* the post-processed tensor and the tensor returned
    slots,      \* DiffusersControlNetUnitStack: what is wired to its three inputs
    passed,     \* which of the three arguments the caller passes to its run
    nUnits,     \* the number of ControlNetUnit objects constructed so far
    stackOut,   \* the stack node's result
    gReq,       \* DiffusersGenerator.run: the arguments of the call
    gCall,      \* 1 for the first call, 2 for its repetition with the same arguments
    gPc,        \* where the call stands
    gLoc,       \* the locals of run: seed, generator, latents, images, width, ...
    gUnits,     \* the caller's ControlNetUnit objects, which run holds by reference
    pbar,       \* the call's ProgressBar
    gRun,       \* the pipeline call: steps done, network evaluations, outcome
    cancelAt,   \* the step during which the user asked to cancel, 0 for never
    gPrev,      \* what the first call did, kept for comparison with the second
    png         \* the file 1.png of the working directory

latVars == <<plArgs, plRes>>
rzVars == <<rzIn, rzOut>>
decVars == <<decIn, decOut>>
stVars == <<slots, passed, nUnits, stackOut>>
genVars == <<gReq, gCall, gPc, gLoc, gUnits, pbar, gRun, cancelAt, gPrev, png>>
vars == <<plArgs, plRes, rzIn, rzOut, decIn, decOut, slots, passed, nUnits,
          stackOut, gReq, gCall, gPc, gLoc, gUnits, pbar, gRun, cancelAt, gPrev,
          png>>

-----------------------------------------------------------------------------
(* Bounds of the model.                                                    *)

MaxBatch == 2       \* batch_size ranges over 1..MaxBatch
MaxDimK == 4        \* height and width range over 4*k, k in 2..MaxDimK
MaxSeed == 2        \* seeds, and the ambient random draws, range over 0..MaxSeed
MaxSigma == 2       \* the scheduler's init_noise_sigma ranges over 1..MaxSigma
MaxGenList == 3     \* a list of generators has 1..MaxGenList members
MaxImg == 4         \* image and target sides for resize_with_padding: 1..MaxImg
MaxPattern == 10    \* the decoder's answers: MaxPattern + 1 rotations of the values
MaxUnits == 3       \* ControlNetUnit objects constructed in one behaviour
MaxStackLen == 4    \* a stack is fed back into a slot while no longer than this
MaxSteps == 3       \* num_inference_steps ranges over 1..MaxSteps
MaxPrompt == 2      \* a prompt has 0..MaxPrompt tokens

-----------------------------------------------------------------------------
(* Tensors.                                                                *)

RECURSIVE Prod(_)
Prod(s) == IF s = <<>> THEN 1 ELSE Head(s) * Prod(Tail(s))

Tensor(shape, data, device, dtype) ==
    [shape |-> shape, data |-> data, device |-> device, dtype |-> dtype]

\* Python's None where a tensor is expected.
NoneT == Tensor(<<>>, <<>>, "none", "none")

Min(a, b) == IF a <= b THEN a ELSE b
Max(a, b) == IF a >= b THEN a ELSE b

-----------------------------------------------------------------------------
(* The pipeline handle: the configuration prepare_latents reads.           *)

in_channels == 4          \* pipe.unet.config.in_channels
vae_scale_factor == 8     \* pipe.vae_scale_factor

Pipe(sigma) == [init_noise_sigma |-> sigma]

-----------------------------------------------------------------------------
(* torch.Generator: a seeded pseudo-random source.  Its state is the seed  *)
(* and the number of values drawn so far; the k-th value of a seed is a    *)
(* fixed function of the two.                                              *)

Generator(seed) == [seed |-> seed, offset |-> 0]

Randn(seed, k) == ((seed * 3 + k * (seed + 2)) % 7) - 3

\* torch.randn(shape, generator=g): the next Prod(shape) values of g.
TorchRandn(shape, g) ==
    [data |-> [i \in 1..Prod(shape) |-> Randn(g.seed, g.offset + i)],
     gen  |-> [g EXCEPT !.offset = g.offset + Prod(shape)]]

\* A generator argument: one generator, or a Python list of generators.
OneGen(g) == [isList |-> FALSE, gens |-> <<g>>]
GenList(gs) == [isList |-> TRUE, gens |-> gs]

RECURSIVE ConcatData(_)
ConcatData(parts) ==
    IF parts = <<>> THEN <<>> ELSE Head(parts) \o ConcatData(Tail(parts))

\* diffusers.utils.torch_utils.randn_tensor: a list of one generator is that
\* generator; a longer list draws sample i from generator i and concatenates.
randn_tensor(shape, generator, device, dtype) ==
    IF generator.isList /\ Len(generator.gens) # 1
    THEN LET one == <<1>> \o Tail(shape)
             draw(i) == TorchRandn(one, generator.gens[i])
         IN  [latents |-> Tensor(shape,
                                 ConcatData([i \in 1..shape[1] |-> draw(i).data]),
                                 device, dtype),
              generator |-> [generator EXCEPT !.gens =
                                [i \in 1..Len(generator.gens) |->
                                    IF i <= shape[1] THEN draw(i).gen
                                    ELSE generator.gens[i]]]]
    ELSE LET d == TorchRandn(shape, generator.gens[1])
         IN  [latents |-> Tensor(shape, d.data, device, dtype),
              generator |-> [generator EXCEPT !.gens = <<d.gen>>]]

\* Tensor.to(device): the same elements on the target device; dtype is kept.
ToDevice(t, device) == [t EXCEPT !.device = device]

\* latents * pipe.scheduler.init_noise_sigma, elementwise.
Scale(t, sigma) == [t EXCEPT !.data = [i \in 1..Len(t.data) |-> t.data[i] * sigma]]

-----------------------------------------------------------------------------
(* prepare_latents (src/__init__.py:115-144).  The result records the      *)
(* exception raised ("" for none), the tensor returned and the generator   *)
(* argument as the call leaves it.                                         *)

LatentShape(batch_size, height, width) ==
    <<batch_size, in_channels, height \div vae_scale_factor, width \div vae_scale_factor>>

\* A variant that rejects only a list longer than the batch.
GeneratorListMismatch_OnlyLonger(batch_size, generator) ==
    generator.isList /\ Len(generator.gens) > batch_size

GeneratorListMismatch(batch_size, generator) ==
    generator.isList /\ Len(generator.gens) # batch_size

InitialLatents(shape, dtype, device, generator, latents) ==
    IF latents = NoneT
    THEN randn_tensor(shape, generator, device, dtype)
    ELSE [latents |-> ToDevice(latents, device), generator |-> generator]

ScaleInitialNoise(pipe, latents) == Scale(latents, pipe.init_noise_sigma)

prepare_latents(pipe, batch_size, height, width, dtype, device, generator, latents) ==
    LET shape == LatentShape(batch_size, height, width)
    IN  IF GeneratorListMismatch(batch_size, generator)
        THEN [err |-> "ValueError", latents |-> NoneT, generator |-> generator]
        ELSE LET init == InitialLatents(shape, dtype, device, generator, latents)
             IN  [err |-> "",
                  latents |-> ScaleInitialNoise(pipe, init.latents),
                  generator |-> init.generator]


-----------------------------------------------------------------------------
(* The state of each operation before it is called.  A specification of    *)
(* one operation leaves the others in this state.                          *)

PlIdle == [done |-> FALSE, err |-> "", latents |-> NoneT,
           generator |-> OneGen(Generator(0)), seedUsed |-> <<>>]
PlNoArgs == [fn |-> "", batch_size |-> 1, height |-> 8, width |-> 8,
             generator |-> OneGen(Generator(0)), latents |-> NoneT,
             seed |-> <<>>, sigma |-> 1]
LatIdle == plArgs = PlNoArgs /\ plRes = PlIdle

\* A PIL image: its size, its mode, and its pixel content as the source the
\* pixels come from and the resamplings and pastes applied to them since.
Image(w, h, mode, px) == [width |-> w, height |-> h, mode |-> mode, px |-> px]
Pixels(src) == [src |-> src, ops |-> <<>>]
NoImage == Image(0, 0, "", Pixels(0))

RzNoCall == [done |-> FALSE, err |-> "", image |-> NoImage,
             new_size |-> <<0, 0>>, position |-> <<0, 0>>]
RzNoOut == [first |-> RzNoCall, second |-> RzNoCall]
RzIdle == rzIn = [image |-> NoImage, target_size |-> <<0, 0>>] /\ rzOut = RzNoOut

DecNoOut == [done |-> FALSE, dec_images |-> NoneT, res |-> NoneT]
DecIdle == decIn = [latents |-> NoneT, dec_tensor |-> NoneT] /\ decOut = DecNoOut

NoPbar == [registrations |-> 0, total |-> 0, current |-> 0, updates |-> 0,
           hook |-> FALSE]
GenNoReq == [num_inference_steps |-> 1, strength |-> 0, guidance_scale |-> 0,
             seed |-> <<>>, batch_size |-> 1, width |-> 8, height |-> 8,
             images |-> <<>>, controlnet_units |-> <<>>,
             positive_prompt_embedding |-> <<1, 1, 1>>,
             negative_prompt_embedding |-> <<1, 1, 1>>]
GenNoLoc == [seed |-> <<>>, generator |-> OneGen(Generator(0)), latents |-> NoneT,
             images |-> <<>>, width |-> 0, height |-> 0,
             positive_prompt_embedding |-> <<>>, negative_prompt_embedding |-> <<>>]
GenNoRun == [entered |-> FALSE, activeSteps |-> 0, step |-> 0, evals |-> 0,
             decodes |-> 0, outcome |-> "", images |-> <<>>,
             target_image_shape |-> <<>>, args |-> <<>>, signalAt |-> 0]
GenNoPrev == [seed |-> <<>>, latents |-> NoneT, outcome |-> "",
              request |-> GenNoReq]
NoFile == [saves |-> 0, size |-> <<>>]
GenIdle ==
    /\ gReq = GenNoReq /\ gCall = 0 /\ gPc = "idle" /\ gLoc = GenNoLoc
    /\ gUnits = <<>> /\ pbar = NoPbar /\ gRun = GenNoRun /\ cancelAt = 0
    /\ gPrev = GenNoPrev /\ png = NoFile

StNoOut == [done |-> FALSE, err |-> "", stack |-> <<>>,
            slots |-> <<<<>>, <<>>, <<>>>>]
NonePassed == [k \in 1..3 |-> FALSE]
StIdle ==
    /\ slots = <<<<>>, <<>>, <<>>>> /\ passed = NonePassed
    /\ nUnits = 0 /\ stackOut = StNoOut

-----------------------------------------------------------------------------
(* The calls of the latent initialiser: prepare_latents itself, with any   *)
(* generator argument, and the DiffusersPrepareLatents node                *)
(* (src/__init__.py:467-491), which builds one generator from its seed.    *)

Dims == {4 * k : k \in 2..MaxDimK}
Seeds == 0..MaxSeed
Sigmas == 1..MaxSigma
BatchSizes == 1..MaxBatch

RECURSIVE SeqsOfLen(_, _)
SeqsOfLen(S, n) ==
    IF n = 0 THEN {<<>>}
    ELSE {<<x>> \o t : x \in S, t \in SeqsOfLen(S, n - 1)}

\* comfy.model_management.get_torch_device() and VAE_DTYPE.
get_torch_device == "cuda"
VAE_DTYPE == "fp16"

\* Latents a caller supplies: on the CPU, in single precision.
SuppliedLatents ==
    {Tensor(<<b, in_channels, 1, 1>>,
            [i \in 1..(b * in_channels) |-> v + (i % 2)], "cpu", "fp32") :
        b \in BatchSizes, v \in {-1, 1}}

GeneratorArgs ==
    {OneGen(Generator(s)) : s \in Seeds}
    \cup UNION {{GenList([i \in 1..n |-> Generator(ss[i])]) : ss \in SeqsOfLen(0..1, n)} :
                    n \in 1..MaxGenList}

\* Optional seed: <<>> is None, <<s>> is the seed s.
OptSeeds == {<<>>} \cup {<<s>> : s \in Seeds}

PlCallArgs ==
    [fn : {"prepare_latents"}, batch_size : BatchSizes, height : Dims, width : {8},
     generator : GeneratorArgs, latents : {NoneT} \cup SuppliedLatents,
     seed : {<<>>}, sigma : Sigmas]

PlNodeArgs ==
    [fn : {"DiffusersPrepareLatents.run"}, batch_size : BatchSizes, height : Dims,
     width : Dims, generator : {OneGen(Generator(0))},
     latents : {NoneT} \cup SuppliedLatents, seed : OptSeeds, sigma : Sigmas]

\* prepare_latents(pipe, batch_size, height, width, dtype, device, generator, latents)
PrepareLatentsCall ==
    /\ plArgs.fn = "prepare_latents"
    /\ ~plRes.done
    /\ LET r == prepare_latents(Pipe(plArgs.sigma), plArgs.batch_size, plArgs.height,
                                plArgs.width, VAE_DTYPE, get_torch_device,
                                plArgs.generator, plArgs.latents)
       IN  plRes' = [done |-> TRUE, err |-> r.err, latents |-> r.latents,
                     generator |-> r.generator, seedUsed |-> <<>>]
    /\ UNCHANGED <<plArgs, rzVars, decVars, stVars, genVars>>

\* random.randint(0, 999999999): a draw from the interpreter's global random
\* state, which nothing in the call's inputs determines.
AmbientRandInt == Seeds

\* DiffusersPrepareLatents.run: the seed in use is the supplied one, or an
\* ambient draw when seed is None.
SeedOrRandom(seed, drawn) == IF seed = <<>> THEN drawn ELSE seed[1]

DiffusersPrepareLatentsRun ==
    /\ plArgs.fn = "DiffusersPrepareLatents.run"
    /\ ~plRes.done
    /\ \E drawn \in AmbientRandInt :
         LET seed == SeedOrRandom(plArgs.seed, drawn)
             device == get_torch_device
             generator == OneGen(Generator(seed))
             r == prepare_latents(Pipe(plArgs.sigma), plArgs.batch_size, plArgs.height,
                                  plArgs.width, VAE_DTYPE, device, generator,
                                  plArgs.latents)
         IN  plRes' = [done |-> TRUE, err |-> r.err, latents |-> r.latents,
                       generator |-> r.generator, seedUsed |-> <<seed>>]
    /\ UNCHANGED <<plArgs, rzVars, decVars, stVars, genVars>>

InitLatents ==
    /\ plArgs \in PlCallArgs \cup PlNodeArgs
    /\ plRes = PlIdle
    /\ RzIdle /\ DecIdle /\ StIdle /\ GenIdle

NextLatents == PrepareLatentsCall \/ DiffusersPrepareLatentsRun

SpecLatents == InitLatents /\ [][NextLatents]_vars

-----------------------------------------------------------------------------
(* Properties of the latent initialiser, under SpecLatents.                *)

PlReturned == plRes.done /\ plRes.err = ""
PlSupplied == plArgs.latents # NoneT

\* What line 143 does to a supplied latent: it comes back on the device
\* with every element multiplied by init_noise_sigma.
PlSuppliedLatentsScaled ==
    (PlReturned /\ PlSupplied) =>
        /\ plRes.latents.shape = plArgs.latents.shape
        /\ plRes.latents.device = get_torch_device
        /\ Len(plRes.latents.data) = Len(plArgs.latents.data)
        /\ \A i \in 1..Len(plArgs.latents.data) :
              plRes.latents.data[i] = plArgs.latents.data[i] * plArgs.sigma

\* C1: a supplied latent L comes back as L, only moved to the device: the
\* output's elements equal the input's whatever init_noise_sigma is.
C1_Original ==
    (PlReturned /\ PlSupplied) =>
        /\ plRes.latents.shape = plArgs.latents.shape
        /\ plRes.latents.data = plArgs.latents.data

\* C4: prepare_latents raises exactly when the generator argument is a list
\* whose length differs from batch_size, with latents absent or present; when
\* it raises no generator has been drawn from and no latent is returned.
C4_GeneratorListChecked ==
    plRes.done =>
        /\ (plRes.err = "ValueError") <=>
              (plArgs.fn = "prepare_latents" /\ plArgs.generator.isList
               /\ Len(plArgs.generator.gens) # plArgs.batch_size)
        /\ plRes.err \in {"", "ValueError"}
        /\ (plRes.err = "ValueError") =>
              /\ plRes.generator = plArgs.generator
              /\ plRes.latents = NoneT
        /\ (plRes.err = "" /\ ~PlSupplied) =>
              \A i \in 1..Len(plRes.generator.gens) :
                  plRes.generator.gens[i].offset > 0 \/ i > plArgs.batch_size
                  \/ Prod(Tail(plRes.latents.shape)) = 0

C4_Witness ==
    /\ plRes.done /\ plRes.err = "ValueError"
    /\ plArgs.generator.isList
    /\ Len(plArgs.generator.gens) = 3 /\ plArgs.batch_size = 2
    /\ PlSupplied

-----------------------------------------------------------------------------
(* resize_with_padding (src/__init__.py:20-43).                            *)
(*                                                                         *)
(* The ratios are Python floats; int(side * ratio) is computed here in     *)
(* exact integer arithmetic, which agrees with the float computation for   *)
(* every image and target side up to 14 (the first disagreement is         *)
(* int(11 * (15 / 11)) = 14).  The sides of this model stay below that.    *)

\* width_ratio <= height_ratio, so that ratio = min(...) is width_ratio.
WidthRatioIsMin(image, target_size) ==
    target_size[1] * image.height <= target_size[2] * image.width

\* int(side * ratio)
ScaledSide(side, image, target_size) ==
    IF WidthRatioIsMin(image, target_size)
    THEN (side * target_size[1]) \div image.width
    ELSE (side * target_size[2]) \div image.height

\* PIL Image.resize(size, LANCZOS): a copy when the size is unchanged, a
\* ValueError ("height and width must be > 0") when a side is below 1,
\* resampled pixels otherwise.
ImageResize(image, size) ==
    IF <<image.width, image.height>> = size
    THEN [err |-> "", image |-> image]
    ELSE IF size[1] < 1 \/ size[2] < 1
    THEN [err |-> "ValueError", image |-> NoImage]
    ELSE [err |-> "",
          image |-> Image(size[1], size[2], image.mode,
                          [image.px EXCEPT !.ops =
                              Append(@, [op |-> "lanczos", w |-> size[1], h |-> size[2],
                                         x |-> 0, y |-> 0])])]

\* Image.new("RGBA", size, (0, 0, 0, 0)): a transparent canvas.
ImageNew(mode, size) == Image(size[1], size[2], mode, Pixels(0))

\* (target - new) // 2 in each dimension
PastePosition(target_size, new_width, new_height) ==
    <<(target_size[1] - new_width) \div 2, (target_size[2] - new_height) \div 2>>

\* background.paste(image, position): an image covering the whole canvas
\* leaves its own pixels; a smaller one leaves them inside a transparent frame.
ImagePaste(background, image, position) ==
    IF position = <<0, 0>> /\ image.width = background.width
       /\ image.height = background.height
    THEN [background EXCEPT !.px = image.px]
    ELSE [background EXCEPT !.px =
             [image.px EXCEPT !.ops =
                 Append(@, [op |-> "paste", w |-> background.width,
                            h |-> background.height,
                            x |-> position[1], y |-> position[2]])]]

resize_with_padding(image, target_size) ==
    LET new_width == ScaledSide(image.width, image, target_size)
        new_height == ScaledSide(image.height, image, target_size)
        resized == ImageResize(image, <<new_width, new_height>>)
        background == ImageNew("RGBA", target_size)
        position == PastePosition(target_size, new_width, new_height)
    IN  IF resized.err # ""
        THEN [done |-> TRUE, err |-> resized.err, image |-> NoImage,
              new_size |-> <<new_width, new_height>>, position |-> <<0, 0>>]
        ELSE [done |-> TRUE, err |-> "",
              image |-> ImagePaste(background, resized.image, position),
              new_size |-> <<new_width, new_height>>, position |-> position]

ImgSides == 1..MaxImg

SourceImages == {Image(w, h, "RGB", Pixels(1)) : w \in ImgSides, h \in ImgSides}

\* resize_with_padding(image, target_size)
ResizeWithPadding ==
    /\ rzIn.image # NoImage
    /\ ~rzOut.first.done
    /\ rzOut' = [rzOut EXCEPT !.first = resize_with_padding(rzIn.image, rzIn.target_size)]
    /\ UNCHANGED <<rzIn, latVars, decVars, stVars, genVars>>

\* resize_with_padding applied to its own result, with the same target.
ResizeAgain ==
    /\ rzOut.first.done /\ rzOut.first.err = ""
    /\ ~rzOut.second.done
    /\ rzOut' = [rzOut EXCEPT !.second =
                    resize_with_padding(rzOut.first.image, rzIn.target_size)]
    /\ UNCHANGED <<rzIn, latVars, decVars, stVars, genVars>>

InitResize ==
    /\ rzIn \in [image : SourceImages, target_size : ImgSides \X ImgSides]
    /\ rzOut = RzNoOut
    /\ LatIdle /\ DecIdle /\ StIdle /\ GenIdle

NextResize == ResizeWithPadding \/ ResizeAgain

SpecResize == InitResize /\ [][NextResize]_vars

-----------------------------------------------------------------------------
(* Properties of resize_with_padding, under SpecResize.                    *)

RzFits(r, target_size) ==
    /\ r.new_size[1] <= target_size[1] /\ r.new_size[2] <= target_size[2]
    /\ r.position[1] >= 0 /\ r.position[2] >= 0

\* The margins on either side of the pasted content differ by at most one.
RzCentred(r, target_size) ==
    /\ (target_size[1] - r.new_size[1]) - 2 * r.position[1] \in {0, 1}
    /\ (target_size[2] - r.new_size[2]) - 2 * r.position[2] \in {0, 1}

\* new_size = (floor(w * ratio), floor(h * ratio)) for ratio = min(W/w, H/h).
RzMinRatio(r, image, target_size) ==
    \/ /\ target_size[1] * image.height <= target_size[2] * image.width
       /\ r.new_size = <<target_size[1],
                         (image.height * target_size[1]) \div image.width>>
    \/ /\ target_size[2] * image.width <= target_size[1] * image.height
       /\ r.new_size = <<(image.width * target_size[2]) \div image.height,
                         target_size[2]>>

\* C9: for every source image with positive sides and every target (W, H) the
\* call returns a canvas of exactly (W, H); the content is scaled by
\* min(W/w, H/h), fits, and is centred; a source of size (W, H) keeps its
\* size, offset (0, 0) and pixels, and a second application changes nothing.
C9_AlwaysCanvasOfTargetSize ==
    rzOut.first.done =>
        /\ rzOut.first.err = ""
        /\ <<rzOut.first.image.width, rzOut.first.image.height>> = rzIn.target_size
        /\ RzMinRatio(rzOut.first, rzIn.image, rzIn.target_size)
        /\ RzFits(rzOut.first, rzIn.target_size)
        /\ RzCentred(rzOut.first, rzIn.target_size)
        /\ (<<rzIn.image.width, rzIn.image.height>> = rzIn.target_size) =>
              /\ rzOut.first.new_size = rzIn.target_size
              /\ rzOut.first.position = <<0, 0>>
              /\ rzOut.first.image.px = rzIn.image.px
        /\ rzOut.second.done =>
              /\ rzOut.second.err = ""
              /\ rzOut.second.image = rzOut.first.image

-----------------------------------------------------------------------------
(* latents_to_img_tensor (src/__init__.py:73-93).                          *)
(*                                                                         *)
(* A float is a record: NaN, an infinity, the largest finite magnitude of  *)
(* the dtype with a sign, or a finite value.  The decoder's output counts  *)
(* in quarters (4 is 1.0) and an image in eighths (8 is 1.0), so that      *)
(* x / 2 + 0.5 is exact.                                                   *)

NaN == [k |-> "nan", v |-> 0]
PosInf == [k |-> "inf", v |-> 1]
NegInf == [k |-> "inf", v |-> -1]
Fin(v) == [k |-> "fin", v |-> v]
\* torch.finfo(dtype).max with sign sgn
FloatMax(sgn) == [k |-> "max", v |-> sgn]

ImageOne == 8       \* 1.0 in the unit of an image tensor
image_channels == 3 \* the channels of a decoded image

\* VaeImageProcessor.denormalize: (x / 2 + 0.5).clamp(0, 1).  clamp keeps a
\* NaN and brings an infinity to the nearer end of the range.
Denormalize(x) ==
    IF x.k = "nan" THEN NaN
    ELSE IF x.k = "inf" THEN (IF x.v > 0 THEN Fin(ImageOne) ELSE Fin(0))
    ELSE Fin(Max(0, Min(ImageOne, x.v + ImageOne \div 2)))

\* image_processor.postprocess(dec_tensor, output_type="pt",
\*     do_denormalize=[True for _ in range(scaled_latents.shape[0])])
Postprocess(t, do_denormalize) ==
    LET per == Prod(Tail(t.shape))
    IN  [t EXCEPT !.data =
            [i \in 1..Len(t.data) |->
                IF do_denormalize[((i - 1) \div per) + 1]
                THEN Denormalize(t.data[i]) ELSE t.data[i]]]

\* A variant that returns its argument.
NanToNum_Identity(x) == x

\* torch.nan_to_num with its defaults: NaN becomes 0, an infinity becomes the
\* largest finite value of the dtype with the same sign.
NanToNum(x) ==
    IF x.k = "nan" THEN Fin(0)
    ELSE IF x.k = "inf" THEN FloatMax(x.v)
    ELSE x

\* res.permute(0, 2, 3, 1): (B, C, H, W) => (B, H, W, C)
Permute0231(t) ==
    LET B == t.shape[1]
        C == t.shape[2]
        H == t.shape[3]
        W == t.shape[4]
        src(j) == LET b == (j - 1) \div (H * W * C)
                      r == (j - 1) % (H * W * C)
                      h == r \div (W * C)
                      w == (r % (W * C)) \div C
                      c == r % C
                  IN  b * (C * H * W) + c * (H * W) + h * W + w + 1
    IN  [t EXCEPT !.shape = <<B, H, W, C>>,
                  !.data = [j \in 1..Len(t.data) |-> t.data[src(j)]]]

\* pipeline.vae.decode: (B, C, h, w) latents become a (B, 3, 8h, 8w) image.
DecodedShape(latent_shape) ==
    <<latent_shape[1], image_channels,
      latent_shape[3] * vae_scale_factor, latent_shape[4] * vae_scale_factor>>

\* Steps 4 to 6 of latents_to_img_tensor, from the decoder's output on.
latents_to_img_tensor(latents, dec_tensor) ==
    LET dec_images == Postprocess(dec_tensor, [b \in 1..latents.shape[1] |-> TRUE])
        res == [dec_images EXCEPT
                   !.data = [i \in 1..Len(dec_images.data) |-> NanToNum(dec_images.data[i])],
                   !.dtype = "fp32"]
    IN  [done |-> TRUE, dec_images |-> dec_images, res |-> Permute0231(res)]

\* What the decoder may answer: any floats, among them NaN and infinities.
DecodedValues ==
    <<Fin(0), NaN, Fin(-6), PosInf, Fin(2), Fin(-3), NegInf, Fin(4), Fin(9), Fin(1), Fin(-4)>>

DecodedTensors(latent_shape) ==
    LET shape == DecodedShape(latent_shape)
        n == Len(DecodedValues)
    IN  {Tensor(shape,
                [i \in 1..Prod(shape) |-> DecodedValues[((i * stride + rot) % n) + 1]],
                get_torch_device, VAE_DTYPE) :
            rot \in 0..MaxPattern, stride \in {1, 3}}

DecodeInputs ==
    UNION {{[latents |-> Tensor(LatentShape(b, 8, w), <<>>, get_torch_device, VAE_DTYPE),
             dec_tensor |-> d] : d \in DecodedTensors(LatentShape(b, 8, w))} :
           b \in BatchSizes, w \in Dims}

\* latents_to_img_tensor(pipeline, latents)
LatentsToImgTensor ==
    /\ decIn.latents # NoneT
    /\ ~decOut.done
    /\ decOut' = latents_to_img_tensor(decIn.latents, decIn.dec_tensor)
    /\ UNCHANGED <<decIn, latVars, rzVars, stVars, genVars>>

InitDecode ==
    /\ decIn \in DecodeInputs
    /\ decOut = DecNoOut
    /\ LatIdle /\ RzIdle /\ StIdle /\ GenIdle

NextDecode == LatentsToImgTensor

SpecDecode == InitDecode /\ [][NextDecode]_vars

-----------------------------------------------------------------------------
(* Properties of latents_to_img_tensor, under SpecDecode.                  *)

\* The index in the returned (B, H, W, C) tensor of element i of a
\* (B, C, H, W) tensor of the given shape.
ChannelLastIndex(shape, i) ==
    LET C == shape[2]
        H == shape[3]
        W == shape[4]
        b == (i - 1) \div (C * H * W)
        r == (i - 1) % (C * H * W)
        c == r \div (H * W)
        h == (r % (H * W)) \div W
        w == r % W
    IN  b * (H * W * C) + h * (W * C) + w * C + c + 1

\* C8: every element whose post-processed value was NaN or an infinity is 0
\* in the returned tensor, which is channel-last (B, H, W, C), holds the
\* post-processed values otherwise, and has every value in [0, 1].
C8_SanitisedChannelLast ==
    decOut.done =>
        LET post == decOut.dec_images
            res == decOut.res
        IN  /\ post.shape = DecodedShape(decIn.latents.shape)
            /\ res.shape = <<post.shape[1], post.shape[3], post.shape[4], post.shape[2]>>
            /\ Len(res.data) = Len(post.data)
            /\ \A i \in 1..Len(post.data) :
                  LET out == res.data[ChannelLastIndex(post.shape, i)]
                  IN  /\ out.k = "fin" /\ 0 <= out.v /\ out.v <= ImageOne
                      /\ post.data[i].k \in {"nan", "inf"} => out = Fin(0)
                      /\ post.data[i].k = "fin" => out = post.data[i]

C8_Witness ==
    /\ decOut.done
    /\ decIn.latents.shape[1] = 2 /\ decIn.latents.shape[4] = 2
    /\ \E i \in 1..Len(decOut.dec_images.data) :
          /\ decOut.dec_images.data[i] = NaN
          /\ decOut.res.data[ChannelLastIndex(decOut.dec_images.shape, i)] = Fin(0)
          /\ ChannelLastIndex(decOut.dec_images.shape, i) # i
    /\ \E i \in 1..Len(decIn.dec_tensor.data) : decIn.dec_tensor.data[i] = PosInf

-----------------------------------------------------------------------------
(* DiffusersControlNetUnit.run (src/__init__.py:605-620) and               *)
(* DiffusersControlNetUnitStack.run (src/__init__.py:651-664).             *)
(*                                                                         *)
(* scale, start and end count in tenths.  A tuple or list of units is a    *)
(* sequence; None and the empty tuple are both the empty sequence, as both *)
(* are false in `if controlnet_unit_k:`.                                   *)

\* comfy_image_to_pil: a (1, H, W, C) tensor becomes a PIL image of width W
\* and height H holding the tensor's pixels as 8-bit values.
comfy_image_to_pil(image) ==
    Image(image.shape[3], image.shape[2], "RGB", Pixels(image.src))

\* ControlNetUnit(controlnet=..., image=..., scale=..., start=..., end=...)
ControlNetUnit(controlnet, image, scale, start, end) ==
    [controlnet |-> controlnet, image |-> image, scale |-> scale,
     start |-> start, end |-> end]

\* DiffusersControlNetUnit.run returns the 1-tuple (unit,).
ControlNetUnit_run(controlnet, image, scale, start, end) ==
    <<ControlNetUnit(controlnet, comfy_image_to_pil(image), scale, start, end)>>

\* DiffusersControlNetUnitStack.run: `stack` is a new list that each
\* non-empty slot extends in turn; the slots themselves are only read.
ControlNetUnitStack_run(controlnet_unit_1, controlnet_unit_2, controlnet_unit_3) ==
    LET stack0 == <<>>
        stack1 == IF controlnet_unit_1 # <<>> THEN stack0 \o controlnet_unit_1 ELSE stack0
        stack2 == IF controlnet_unit_2 # <<>> THEN stack1 \o controlnet_unit_2 ELSE stack1
        stack3 == IF controlnet_unit_3 # <<>> THEN stack2 \o controlnet_unit_3 ELSE stack2
    IN  [done |-> TRUE, err |-> "", stack |-> stack3,
         slots |-> <<controlnet_unit_1, controlnet_unit_2, controlnet_unit_3>>]

\* The call of run (lines 651-656): its three parameters have no default
\* value, so a call that leaves one out raises TypeError before the body
\* runs.  given[k] tells whether argument k is passed.
ControlNetUnitStack_call(given, args) ==
    IF \E k \in 1..3 : ~given[k]
    THEN [done |-> TRUE, err |-> "TypeError", stack |-> <<>>, slots |-> args]
    ELSE ControlNetUnitStack_run(args[1], args[2], args[3])

\* The documented range of scale is 0..10 tenths; nothing keeps a caller of
\* run() inside it.
UnitScales == {5, 15}
UnitImages == {[shape |-> <<1, 2, 3, 3>>, src |-> 1]}

\* A unit node runs and its output is wired to input k of the stack node;
\* the controlnet handle tells the units apart.
ControlNetUnitRun ==
    /\ nUnits < MaxUnits
    /\ \E k \in 1..3, scale \in UnitScales, image \in UnitImages :
         /\ slots' = [slots EXCEPT ![k] =
                         ControlNetUnit_run(nUnits + 1, image, scale, 0, 10)]
         /\ passed' = [passed EXCEPT ![k] = TRUE]
    /\ nUnits' = nUnits + 1
    /\ stackOut' = StNoOut
    /\ UNCHANGED <<latVars, rzVars, decVars, genVars>>

\* A caller of run passes None for input k.  The host does not: it leaves
\* an input that nothing is wired to out of the call.
ControlNetUnitStackPassNone ==
    /\ \E k \in 1..3 :
         /\ ~passed[k]
         /\ passed' = [passed EXCEPT ![k] = TRUE]
    /\ stackOut' = StNoOut
    /\ UNCHANGED <<slots, nUnits, latVars, rzVars, decVars, genVars>>

\* The stack node runs on what is passed to it: an input that is neither
\* wired nor given as None is left out of the call.
ControlNetUnitStackRun ==
    /\ ~stackOut.done
    /\ stackOut' = ControlNetUnitStack_call(passed, slots)
    /\ UNCHANGED <<slots, passed, nUnits, latVars, rzVars, decVars, genVars>>

\* The output of a stack node is wired to input k of a further stack node.
ControlNetUnitStackChain ==
    /\ stackOut.done /\ stackOut.err = ""
    /\ Len(stackOut.stack) <= MaxStackLen
    /\ \E k \in 1..3 :
         /\ slots' = [slots EXCEPT ![k] = stackOut.stack]
         /\ passed' = [passed EXCEPT ![k] = TRUE]
    /\ stackOut' = StNoOut
    /\ UNCHANGED <<nUnits, latVars, rzVars, decVars, genVars>>

InitStack == StIdle /\ LatIdle /\ RzIdle /\ DecIdle /\ GenIdle

NextStack ==
    \/ ControlNetUnitRun
    \/ ControlNetUnitStackPassNone
    \/ ControlNetUnitStackRun
    \/ ControlNetUnitStackChain

SpecStack == InitStack /\ [][NextStack]_vars

-----------------------------------------------------------------------------
(* Properties of the stack node, under SpecStack.                          *)

\* The stack is slot 1, then slot 2, then slot 3, empty slots skipped:
\* element i of the output is the unit at the matching place of its slot, the
\* length is the sum of the slots' lengths, and the slots are as they were.
StackConcatenates ==
    LET n1 == Len(slots[1])
        n2 == Len(slots[2])
        n3 == Len(slots[3])
    IN  /\ stackOut.slots = slots
        /\ Len(stackOut.stack) = n1 + n2 + n3
        /\ \A i \in 1..Len(stackOut.stack) :
              stackOut.stack[i] =
                  IF i <= n1 THEN slots[1][i]
                  ELSE IF i <= n1 + n2 THEN slots[2][i - n1]
                  ELSE slots[3][i - n1 - n2]

\* Every call of run that passes all three arguments returns the
\* concatenation; every other call raises TypeError.
StackConcatenatesWhenAllPassed ==
    stackOut.done =>
        IF \A k \in 1..3 : passed[k]
        THEN stackOut.err = "" /\ StackConcatenates
        ELSE stackOut.err = "TypeError"

\* C10: run returns the concatenation of its slots in argument order, an
\* empty or absent slot being skipped, and leaves the slots as they were.
C10_StackIsConcatenation ==
    stackOut.done => (stackOut.err = "" /\ StackConcatenates)

-----------------------------------------------------------------------------
(* DiffusersGenerator.run (src/__init__.py:748-835), one action for each   *)
(* stretch of the method between two effects a claim tells apart.          *)
(*                                                                         *)
(* strength counts in quarters (StrengthOne is 1.0), values a float holds  *)
(* exactly, so that int(num_inference_steps * strength) is exact here.     *)
(* scale counts in tenths.  An image tensor is its shape (B, H, W, C).     *)

StrengthOne == 4

\* int(x) for x = num / den: truncation towards zero.
IntTrunc(num, den) == IF num >= 0 THEN num \div den ELSE -((-num) \div den)

\* A variant that registers num_inference_steps whatever the strength.
ProgressTotal_IgnoresStrength(num_inference_steps, strength) == num_inference_steps

\* int(num_inference_steps * strength)
ProgressTotal(num_inference_steps, strength) ==
    IntTrunc(num_inference_steps * strength, StrengthOne)

\* comfy.utils.ProgressBar(total): the total is registered, nothing is done
\* yet, and the bar keeps the progress hook that is installed at that moment
\* (the host installs one; a bare interpreter has none).
ProgressBar(old, total, hook) ==
    [registrations |-> old.registrations + 1, total |-> total, current |-> 0,
     updates |-> 0, hook |-> hook]

\* A variant whose hook runs before current advances.
PbarUpdate_HookFirst(pb, value, interrupted) ==
    IF pb.hook /\ interrupted
    THEN [pbar |-> [pb EXCEPT !.updates = @ + 1], raised |-> TRUE]
    ELSE [pbar |-> [pb EXCEPT !.current = Min(pb.current + value, pb.total),
                              !.updates = @ + 1],
          raised |-> FALSE]

\* ProgressBar.update(value): current advances by value, never beyond total,
\* and then the hook, if there is one, is called.  The host's hook raises
\* its interrupt exception when an interrupt is pending.
PbarUpdate(pb, value, interrupted) ==
    [pbar |-> [pb EXCEPT !.current = Min(pb.current + value, pb.total),
                         !.updates = @ + 1],
     raised |-> pb.hook /\ interrupted]

\* A variant that reports nothing.
callback_NoUpdate(pb, interrupted) == [pbar |-> pb, signal |-> FALSE]

\* def callback(*_): pbar.update(1) -- it returns None, which asks for
\* nothing, unless update raises: the exception leaves the callback, and
\* that is the callback's signal of cancellation.
callback(pb, interrupted) ==
    LET u == PbarUpdate(pb, 1, interrupted)
    IN  [pbar |-> u.pbar, signal |-> u.raised]

\* `if not seed:` holds for None and for 0.
NotSeed(seed) == seed = <<>> \/ seed[1] = 0

\* The seed in use: the argument, or random.randint(0, 999999999999).
SeedOrRandint(seed, drawn) == IF NotSeed(seed) THEN drawn ELSE seed[1]

\* The shape of latents_to_img_tensor's result for latents of a shape.
ImgTensorShape(latent_shape) ==
    LET d == DecodedShape(latent_shape) IN <<d[1], d[3], d[4], d[2]>>

\* Tensor.repeat(batch_size, 1, 1) on a (B, L, D) embedding.
Repeat(shape, batch_size) == <<shape[1] * batch_size, shape[2], shape[3]>>

\* A variant whose target is (height, width).
RECURSIVE ResizeUnits_Transposed(_, _, _)
ResizeUnits_Transposed(units, i, target_image_shape) ==
    IF i > Len(units) THEN [err |-> "", units |-> units]
    ELSE LET r == resize_with_padding(units[i].image,
                      <<target_image_shape[2], target_image_shape[1]>>)
         IN  IF r.err # "" THEN [err |-> r.err, units |-> units]
             ELSE ResizeUnits_Transposed([units EXCEPT ![i].image = r.image],
                                         i + 1, target_image_shape)

\* for unit in controlnet_units: unit.image = resize_with_padding(...), from
\* unit i on; the loop ends at the first unit whose resize raises.
RECURSIVE ResizeUnits(_, _, _)
ResizeUnits(units, i, target_image_shape) ==
    IF i > Len(units) THEN [err |-> "", units |-> units]
    ELSE LET r == resize_with_padding(units[i].image, target_image_shape)
         IN  IF r.err # "" THEN [err |-> r.err, units |-> units]
             ELSE ResizeUnits([units EXCEPT ![i].image = r.image], i + 1,
                              target_image_shape)

\* get_prompt_embeds (src/__init__.py:53-70).  A prompt is its number of
\* tokens.  The tokenizer's length (77 for this model family) and the text
\* encoder's hidden size are scaled down; a chunk holds model_max_length - 2
\* tokens of the prompt between its two end markers.
model_max_length == 3
hidden_size == 1

\* compel.build_conditioning_tensor(prompt), truncate_long_prompts=False: as
\* many chunks as hold the prompt, at least one, in a batch of one.
build_conditioning_tensor(prompt) ==
    LET per_chunk == model_max_length - 2
        chunks == Max(1, (prompt + per_chunk - 1) \div per_chunk)
    IN  <<1, chunks * model_max_length, hidden_size>>

RECURSIVE MaxLength(_)
MaxLength(tensors) ==
    IF tensors = <<>> THEN 0 ELSE Max(Head(tensors)[2], MaxLength(Tail(tensors)))

\* compel.pad_conditioning_tensors_to_same_length: every tensor shorter than
\* the longest is extended with the encoding of the empty prompt.
pad_conditioning_tensors_to_same_length(tensors) ==
    [i \in 1..Len(tensors) |->
        <<tensors[i][1], MaxLength(tensors), tensors[i][3]>>]

get_prompt_embeds(prompt, negative_prompt) ==
    LET prompt_embeds == build_conditioning_tensor(prompt)
        negative_prompt_embeds == build_conditioning_tensor(negative_prompt)
    IN  pad_conditioning_tensors_to_same_length(
            <<prompt_embeds, negative_prompt_embeds>>)

Prompts == 0..MaxPrompt

\* The pairs (positive, negative) that DiffusersCompelPromptEmbedding.run
\* (src/__init__.py:260-266) returns.
PromptEmbeddings == {get_prompt_embeds(p, n) : p \in Prompts, n \in Prompts}

\* The pipeline handle of the generator calls.
GenPipe == Pipe(MaxSigma)

GenUnitTuples ==
    {<<>>} \cup {ControlNetUnit_run(1, image, scale, 0, 10) :
                    image \in UnitImages, scale \in UnitScales}

\* A stack of two units with images of different proportions.
GenUnitStack ==
    ControlNetUnitStack_run(
        ControlNetUnit_run(1, [shape |-> <<1, 2, 3, 3>>, src |-> 1], 5, 0, 10),
        ControlNetUnit_run(2, [shape |-> <<1, 3, 2, 3>>, src |-> 2], 10, 0, 5),
        <<>>).stack

\* Requested widths: multiples of the downscale factor and one that is not.
GenWidths == {8, 12, 4 * MaxDimK}

GenRequests ==
    [num_inference_steps : 1..MaxSteps,
     strength : {0, 2, StrengthOne, StrengthOne + 1},
     guidance_scale : {7, 31},
     seed : {<<>>, <<0>>, <<MaxSeed>>},
     batch_size : BatchSizes,
     width : {8, 4 * MaxDimK}, height : {8},
     images : {<<>>, <<1, 8, 16, 3>>},
     controlnet_units : GenUnitTuples,
     positive_prompt_embedding : {get_prompt_embeds(1, 0)[1]},
     negative_prompt_embedding : {get_prompt_embeds(1, 0)[2]}]

\* Requests that vary the sizes: of the request, of the input images, of the
\* stack of units and of the prompts.
GenCanvasRequests ==
    {[num_inference_steps |-> 1, strength |-> StrengthOne, guidance_scale |-> 7,
      seed |-> <<MaxSeed>>, batch_size |-> batch_size,
      width |-> width, height |-> height, images |-> images,
      controlnet_units |-> controlnet_units,
      positive_prompt_embedding |-> embeds[1],
      negative_prompt_embedding |-> embeds[2]] :
        batch_size \in BatchSizes, width \in GenWidths, height \in {8, 16},
        images \in {<<>>, <<1, 8, 16, 3>>, <<MaxBatch, 16, 8, 3>>},
        controlnet_units \in {<<>>, GenUnitStack},
        embeds \in PromptEmbeddings}

\* Lines 768-771: pbar = ProgressBar(int(num_inference_steps * strength))
GenRegisterProgress ==
    /\ gPc = "start"
    /\ \E hook \in BOOLEAN :
         pbar' = ProgressBar(pbar,
                     ProgressTotal(gReq.num_inference_steps, gReq.strength), hook)
    /\ gPc' = "seed"
    /\ UNCHANGED <<gReq, gCall, gLoc, gUnits, gRun, cancelAt, gPrev,
                   png,
                   latVars, rzVars, decVars, stVars>>

\* Lines 772-776: the seed and the generator.
GenSeedGenerator ==
    /\ gPc = "seed"
    /\ \E drawn \in AmbientRandInt :
         LET seed == SeedOrRandint(gReq.seed, drawn)
         IN  gLoc' = [gLoc EXCEPT !.seed = <<seed>>,
                                  !.generator = OneGen(Generator(seed))]
    /\ gPc' = "latents"
    /\ UNCHANGED <<gReq, gCall, gUnits, pbar, gRun, cancelAt, gPrev,
                   png,
                   latVars, rzVars, decVars, stVars>>

\* Lines 778-790: without input images, latents are drawn and decoded to the
\* images in use; with them, nothing is drawn.
GenPrepareImages ==
    /\ gPc = "latents"
    /\ IF gReq.images = <<>>
       THEN LET r == prepare_latents(GenPipe, gReq.batch_size, gReq.height, gReq.width,
                                     VAE_DTYPE, get_torch_device, gLoc.generator, NoneT)
            IN  /\ gLoc' = [gLoc EXCEPT !.latents = r.latents,
                                        !.generator = r.generator,
                                        !.images = ImgTensorShape(r.latents.shape)]
                /\ gRun' = [gRun EXCEPT !.decodes = @ + 1]
       ELSE /\ gLoc' = [gLoc EXCEPT !.images = gReq.images]
            /\ UNCHANGED gRun
    /\ gPc' = "embeds"
    /\ UNCHANGED <<gReq, gCall, gUnits, pbar, cancelAt, gPrev,
                   png,
                   latVars, rzVars, decVars, stVars>>

\* Lines 793-796: the embeddings are repeated batch_size times; width and
\* height become those of the images in use.
GenRepeatEmbeddings ==
    /\ gPc = "embeds"
    /\ gLoc' = [gLoc EXCEPT
                   !.positive_prompt_embedding =
                       Repeat(gReq.positive_prompt_embedding, gReq.batch_size),
                   !.negative_prompt_embedding =
                       Repeat(gReq.negative_prompt_embedding, gReq.batch_size),
                   !.width = gLoc.images[3],
                   !.height = gLoc.images[2]]
    /\ gPc' = "units"
    /\ UNCHANGED <<gReq, gCall, gUnits, pbar, gRun, cancelAt, gPrev,
                   png,
                   latVars, rzVars, decVars, stVars>>

\* Lines 801-806: each unit's image is replaced, in the caller's object, by
\* its letterboxed copy; an exception of the resize ends the call.
GenResizeUnits ==
    /\ gPc = "units"
    /\ LET target_image_shape == <<gLoc.width, gLoc.height>>
           r == ResizeUnits(gUnits, 1, target_image_shape)
       IN  /\ gUnits' = r.units
           /\ gPc' = IF r.err = "" THEN "pipeline" ELSE "done"
           /\ gRun' = [gRun EXCEPT
                          !.target_image_shape =
                              IF gUnits # <<>> THEN target_image_shape ELSE @,
                          !.outcome = r.err]
    /\ UNCHANGED <<gReq, gCall, gLoc, pbar, cancelAt, gPrev,
                   png,
                   latVars, rzVars, decVars, stVars>>

\* The documented ranges (INPUT_TYPES): strength in [0, 1], guidance_scale in
\* [0, 30], a unit's scale in [0, 1].
StrengthInRange(strength) == 0 <= strength /\ strength <= StrengthOne
GuidanceInRange(guidance_scale) == 0 <= guidance_scale /\ guidance_scale <= 30
ScaleInRange(scale) == 0 <= scale /\ scale <= 10

\* The pipeline's own check of its parameters, before its loop starts.
InvalidParameter(strength, guidance_scale, units) ==
    \/ ~StrengthInRange(strength)
    \/ ~GuidanceInRange(guidance_scale)
    \/ \E i \in 1..Len(units) : ~ScaleInRange(units[i].scale)

\* A unit whose image is not of the canvas size cannot guide a step.
ShapeMismatch(units, width, height) ==
    \E i \in 1..Len(units) :
        <<units[i].image.width, units[i].image.height>> # <<width, height>>

\* activeSteps = floor(steps * strength)
ActiveSteps(num_inference_steps, strength) ==
    (num_inference_steps * strength) \div StrengthOne

\* Lines 807-826: the keyword arguments of the call of the pipeline that
\* depend on the images, the embeddings and the units.
PipelineArgs(loc, units) ==
    [image |-> loc.images, width |-> loc.width, height |-> loc.height,
     prompt_embeds |-> loc.positive_prompt_embedding,
     negative_prompt_embeds |-> loc.negative_prompt_embedding,
     controlnet_units |-> units]

\* Lines 807-826, the call of the pipeline: its parameters are checked, then
\* the loop is set up.
PipelineEnter ==
    /\ gPc = "pipeline"
    /\ IF InvalidParameter(gReq.strength, gReq.guidance_scale, gUnits)
       THEN gPc' = "done" /\ gRun' = [gRun EXCEPT !.outcome = "InvalidParameter"]
       ELSE IF ShapeMismatch(gUnits, gLoc.width, gLoc.height)
       THEN gPc' = "done" /\ gRun' = [gRun EXCEPT !.outcome = "ShapeMismatch"]
       ELSE /\ gPc' = "loop"
            /\ gRun' = [gRun EXCEPT !.entered = TRUE,
                           !.args = <<PipelineArgs(gLoc, gUnits)>>,
                           !.activeSteps = ActiveSteps(gReq.num_inference_steps,
                                                       gReq.strength)]
    /\ UNCHANGED <<gReq, gCall, gLoc, gUnits, pbar, cancelAt, gPrev,
                   png,
                   latVars, rzVars, decVars, stVars>>

\* One step of the loop: the denoiser is evaluated, the scheduler advances
\* the latent, and the callback is invoked once; a callback that signals
\* cancellation ends the run as Cancelled.
PipelineStep ==
    /\ gPc = "loop"
    /\ gRun.step < gRun.activeSteps
    /\ LET cb == callback(pbar, cancelAt > 0)
       IN  /\ pbar' = cb.pbar
           /\ gRun' = [gRun EXCEPT !.step = @ + 1, !.evals = @ + 1,
                          !.signalAt = IF cb.signal THEN gRun.step + 1 ELSE @,
                          !.outcome = IF cb.signal THEN "Cancelled" ELSE @]
           /\ gPc' = IF cb.signal THEN "done" ELSE "loop"
    /\ UNCHANGED <<gReq, gCall, gLoc, gUnits, cancelAt, gPrev,
                   png,
                   latVars, rzVars, decVars, stVars>>

\* The denoiser or the scheduler raises: the error ends the call unchanged.
PipelineRaises ==
    /\ gPc = "loop"
    /\ gRun.step < gRun.activeSteps
    /\ gRun' = [gRun EXCEPT !.outcome = "ExternalFailure"]
    /\ gPc' = "done"
    /\ UNCHANGED <<gReq, gCall, gLoc, gUnits, pbar, cancelAt, gPrev,
                   png,
                   latVars, rzVars, decVars, stVars>>

\* After the last step the final latent is decoded to the result images.
PipelineDecode ==
    /\ gPc = "loop"
    /\ gRun.step = gRun.activeSteps
    /\ gRun' = [gRun EXCEPT !.decodes = @ + 1, !.images = gLoc.images]
    /\ gPc' = "return"
    /\ UNCHANGED <<gReq, gCall, gLoc, gUnits, pbar, cancelAt, gPrev,
                   png,
                   latVars, rzVars, decVars, stVars>>

\* Image.save(path) on a file of the working directory: the file now holds
\* the image, whatever it held.
ImageSave(file, images) ==
    [saves |-> file.saves + 1, size |-> <<images[3], images[2]>>]

\* Lines 829-835: the result images are converted, the first of them is
\* saved as 1.png in the working directory, and the tensor is returned.  A
\* save that cannot write raises OSError out of run, the file left as it was.
GenReturn ==
    /\ gPc = "return"
    /\ \/ /\ png' = ImageSave(png, gRun.images)
          /\ gRun' = [gRun EXCEPT !.outcome = "Completed"]
       \/ /\ png' = png
          /\ gRun' = [gRun EXCEPT !.outcome = "OSError"]
    /\ gPc' = "done"
    /\ UNCHANGED <<gReq, gCall, gLoc, gUnits, pbar, cancelAt, gPrev,
                   latVars, rzVars, decVars, stVars>>

\* The user asks the host to cancel while a step is running.  The host
\* sets its interrupt flag, which the progress hook reads at the next
\* pbar.update: cancelAt is the step during which the flag was set.
Interrupt ==
    /\ gPc = "loop"
    /\ cancelAt = 0
    /\ gRun.step < gRun.activeSteps
    /\ cancelAt' = gRun.step + 1
    /\ UNCHANGED <<gReq, gCall, gPc, gLoc, gUnits, pbar, gRun, gPrev,
                   png,
                   latVars, rzVars, decVars, stVars>>

\* The same node runs again with the same arguments: the locals and the
\* progress bar are new, the caller's unit objects are the same objects.
GenRunAgain ==
    /\ gPc = "done"
    /\ gCall = 1
    /\ gCall' = 2
    /\ gPrev' = [seed |-> gLoc.seed, latents |-> gLoc.latents,
                 outcome |-> gRun.outcome, request |-> gReq]
    /\ gLoc' = GenNoLoc
    /\ pbar' = NoPbar
    /\ gRun' = GenNoRun
    /\ cancelAt' = 0
    /\ gPc' = "start"
    /\ UNCHANGED <<gReq, gUnits, png,
                   latVars, rzVars, decVars, stVars>>

\* The node runs again with the same stack of units and another requested
\* size: the caller's unit objects are the same objects.
GenRunAgainResized ==
    /\ gPc = "done"
    /\ gCall = 1
    /\ gUnits # <<>>
    /\ gCall' = 2
    /\ \E width \in GenWidths \ {gReq.width} :
          gReq' = [gReq EXCEPT !.width = width]
    /\ gPrev' = [seed |-> gLoc.seed, latents |-> gLoc.latents,
                 outcome |-> gRun.outcome, request |-> gReq]
    /\ gLoc' = GenNoLoc
    /\ pbar' = NoPbar
    /\ gRun' = GenNoRun
    /\ cancelAt' = 0
    /\ gPc' = "start"
    /\ UNCHANGED <<gUnits, png,
                   latVars, rzVars, decVars, stVars>>

InitGen ==
    /\ gReq \in GenRequests \cup GenCanvasRequests
    /\ gCall = 1
    /\ gPc = "start"
    /\ gLoc = GenNoLoc
    /\ gUnits = gReq.controlnet_units
    /\ pbar = NoPbar
    /\ gRun = GenNoRun
    /\ cancelAt = 0
    /\ gPrev = GenNoPrev
    /\ png = NoFile
    /\ LatIdle /\ RzIdle /\ DecIdle /\ StIdle

NextGen ==
    \/ GenRegisterProgress
    \/ GenSeedGenerator
    \/ GenPrepareImages
    \/ GenRepeatEmbeddings
    \/ GenResizeUnits
    \/ PipelineEnter
    \/ PipelineStep
    \/ PipelineRaises
    \/ PipelineDecode
    \/ GenReturn
    \/ Interrupt
    \/ GenRunAgain
    \/ GenRunAgainResized

SpecGen == InitGen /\ [][NextGen]_vars

-----------------------------------------------------------------------------
(* Properties of DiffusersGenerator.run, under SpecGen.                    *)

GenSeeded == gPc \notin {"idle", "start", "seed"}
GenPrepared == gPc \notin {"idle", "start", "seed", "latents"}

\* C2: for every seed a caller supplies, 0 included, the generator is seeded
\* with exactly that seed, and a second call with identical inputs has
\* initial latents identical to the first call's.
C2_SuppliedSeedDeterminesLatents ==
    gReq.seed # <<>> =>
        /\ GenSeeded => gLoc.seed = gReq.seed
        /\ (gCall = 2 /\ gPrev.request = gReq /\ GenPrepared) =>
              gLoc.latents = gPrev.latents

\* C3: when the callback signals cancellation at step k, the run is
\* Cancelled right after step k's update: no step k + 1 runs, nothing is
\* decoded or converted after the loop and no image is returned; Cancelled
\* is neither Completed nor a failure of the denoiser.
C3_CancelStopsAfterStep ==
    gRun.signalAt > 0 =>
        /\ gPc = "done" /\ gRun.outcome = "Cancelled"
        /\ gRun.step = gRun.signalAt /\ gRun.evals = gRun.signalAt
        /\ pbar.updates = gRun.signalAt /\ pbar.current = gRun.signalAt
        /\ gRun.decodes = (IF gReq.images = <<>> THEN 1 ELSE 0)
        /\ gRun.images = <<>>
        /\ png.saves = (IF gCall = 2 /\ gPrev.outcome = "Completed" THEN 1 ELSE 0)

C3_Witness ==
    /\ gRun.signalAt = 1 /\ cancelAt = 1 /\ pbar.hook
    /\ gRun.activeSteps = 3
    /\ gPc = "done" /\ gRun.outcome = "Cancelled"
    /\ gRun.step = 1 /\ pbar.updates = 1

\* C5: a request whose guidance scale, strength or unit scale is outside its
\* documented range is rejected with InvalidParameter, and up to then no
\* progress total is registered, no update made, no latent drawn and no
\* decoder or denoiser evaluated.
C5_OutOfRange ==
    \/ gReq.strength < 0 \/ gReq.strength > StrengthOne
    \/ gReq.guidance_scale < 0 \/ gReq.guidance_scale > 30
    \/ \E i \in 1..Len(gReq.controlnet_units) :
          gReq.controlnet_units[i].scale < 0 \/ gReq.controlnet_units[i].scale > 10

C5_RejectedWithoutSideEffects ==
    (gCall >= 1 /\ C5_OutOfRange) =>
        /\ pbar.registrations = 0 /\ pbar.updates = 0
        /\ gLoc.latents = NoneT
        /\ gLoc.generator.gens[1].offset = 0
        /\ gRun.decodes = 0 /\ gRun.evals = 0
        /\ gRun.outcome \in {"", "InvalidParameter"}
        /\ gPc = "done" => gRun.outcome = "InvalidParameter"

\* C6: the number of update calls always equals the number of completed
\* steps and never exceeds the registered total; a Completed run made
\* exactly floor(steps * strength) of them.
C6_OneUpdatePerStep ==
    /\ pbar.updates = gRun.step
    /\ pbar.current = gRun.step
    /\ pbar.updates <= pbar.total
    /\ gRun.outcome = "Completed" =>
          /\ pbar.updates * StrengthOne <= gReq.num_inference_steps * gReq.strength
          /\ (pbar.updates + 1) * StrengthOne > gReq.num_inference_steps * gReq.strength

C6_Witness ==
    /\ gRun.outcome = "Completed"
    /\ gReq.num_inference_steps = 3 /\ gReq.strength = 2
    /\ pbar.updates = 1 /\ gRun.step = 1

\* C7: within a call the progress total is registered exactly once, as
\* floor(num_inference_steps * strength), before the first evaluation of a
\* network and before the first update.
C7_TotalRegisteredOnceUpFront ==
    /\ pbar.registrations <= 1
    /\ (gRun.evals > 0 \/ gRun.decodes > 0 \/ pbar.updates > 0 \/ gPc \in {"loop", "return"})
          => pbar.registrations = 1
    /\ (gCall >= 1 /\ gPc # "start") =>
          /\ pbar.registrations = 1
          /\ pbar.total * StrengthOne <= gReq.num_inference_steps * gReq.strength
          /\ (pbar.total + 1) * StrengthOne > gReq.num_inference_steps * gReq.strength

C7_Witness ==
    /\ gCall = 2 /\ gPc = "loop"
    /\ gReq.num_inference_steps = 3 /\ gReq.strength = 2
    /\ pbar.registrations = 1 /\ pbar.total = 1
    /\ gRun.evals = 1 /\ pbar.updates = 1

\* width and height have been read from the images in use (lines 795-796).
GenSized == gPc \in {"units", "pipeline", "loop", "return", "done"}

\* The width and height in use are dimension 2 and dimension 1 of the image
\* tensor in use, and so are the canvas of the units and the width and
\* height passed to the pipeline; supplied images are the images in use.
GenCanvasFromImages ==
    /\ GenSized =>
          /\ <<gLoc.width, gLoc.height>> = <<gLoc.images[3], gLoc.images[2]>>
          /\ gReq.images # <<>> => gLoc.images = gReq.images
    /\ gRun.target_image_shape # <<>> =>
          gRun.target_image_shape = <<gLoc.images[3], gLoc.images[2]>>
    /\ gRun.args # <<>> =>
          /\ gRun.args[1].image = gLoc.images
          /\ <<gRun.args[1].width, gRun.args[1].height>> =
                 <<gLoc.images[3], gLoc.images[2]>>

\* C11: the width and height passed to the pipeline and used as the canvas
\* of the units are those of the image tensor in use; with an input image
\* they are that image's, and without one they are the requested width and
\* height, from which the latent was drawn.
C11_CanvasIsImageOrRequestedSize ==
    /\ GenCanvasFromImages
    /\ (GenSized /\ gReq.images = <<>>) =>
          /\ <<gLoc.width, gLoc.height>> = <<gReq.width, gReq.height>>
          /\ gLoc.latents.shape[4] * vae_scale_factor = gReq.width
          /\ gLoc.latents.shape[3] * vae_scale_factor = gReq.height

\* The embeddings handed to the pipeline keep the sequence length they came
\* with, the same for both, and have batch_size times their incoming batch.
GenEmbeddingsRepeated ==
    gRun.args # <<>> =>
        LET a == gRun.args[1]
        IN  /\ a.prompt_embeds[2] = a.negative_prompt_embeds[2]
            /\ a.prompt_embeds[2] = gReq.positive_prompt_embedding[2]
            /\ a.negative_prompt_embeds[2] = gReq.negative_prompt_embedding[2]
            /\ a.prompt_embeds[1] =
                   gReq.positive_prompt_embedding[1] * gReq.batch_size
            /\ a.negative_prompt_embeds[1] =
                   gReq.negative_prompt_embedding[1] * gReq.batch_size

\* C12: the positive and negative embeddings handed to the denoiser have the
\* same sequence length, neither shorter than it came, and the same batch
\* size, which is the batch of the image tensor being denoised, also when
\* the input images' batch differs from the requested batch_size.
C12_EmbeddingsMatchImageBatch ==
    gRun.args # <<>> =>
        LET a == gRun.args[1]
        IN  /\ a.prompt_embeds[2] = a.negative_prompt_embeds[2]
            /\ a.prompt_embeds[2] >= gReq.positive_prompt_embedding[2]
            /\ a.negative_prompt_embeds[2] >= gReq.negative_prompt_embedding[2]
            /\ a.prompt_embeds[1] = a.negative_prompt_embeds[1]
            /\ a.prompt_embeds[1] = a.image[1]

\* C13: a call leaves the unit objects of the caller's stack holding their
\* original conditioning images, so that the units a second call with the
\* same stack hands to the pipeline are the letterboxed originals.
C13_CallerUnitsKeepOriginalImages ==
    /\ Len(gUnits) = Len(gReq.controlnet_units)
    /\ \A i \in 1..Len(gUnits) :
          gUnits[i].image = gReq.controlnet_units[i].image
    /\ (gCall = 2 /\ gRun.args # <<>>) =>
          LET a == gRun.args[1]
          IN  \A i \in 1..Len(a.controlnet_units) :
                 a.controlnet_units[i].image =
                     resize_with_padding(gReq.controlnet_units[i].image,
                                         <<a.width, a.height>>).image

\* The pipeline is being invoked, or has been in this call.
GenAtPipeline == gPc \in {"pipeline", "loop", "return"} \/ gRun.args # <<>>

\* C14: when a stack of units is supplied, from the invocation of the
\* pipeline to the end of the run every unit of the stack holds an image of
\* exactly the (width, height) passed to the pipeline, and the stack has the
\* supplied units in the supplied order, none added and none moved.
C14_UnitsFitCanvasInSuppliedOrder ==
    (GenAtPipeline /\ gReq.controlnet_units # <<>>) =>
        /\ Len(gUnits) = Len(gReq.controlnet_units)
        /\ \A i \in 1..Len(gUnits) :
              /\ <<gUnits[i].image.width, gUnits[i].image.height>> =
                     <<gLoc.width, gLoc.height>>
              /\ [gUnits[i] EXCEPT !.image = gReq.controlnet_units[i].image] =
                     gReq.controlnet_units[i]
        /\ gRun.args # <<>> =>
              /\ gRun.args[1].controlnet_units = gUnits
              /\ <<gRun.args[1].width, gRun.args[1].height>> =
                     <<gLoc.width, gLoc.height>>

C14_Witness ==
    /\ gPc = "done" /\ gRun.outcome = "Completed"
    /\ gRun.args # <<>>
    /\ <<gRun.args[1].width, gRun.args[1].height>> = <<16, 8>>
    /\ Len(gUnits) = 2
    /\ gReq.controlnet_units[1].image.width = 3
    /\ gUnits[1].controlnet = 1 /\ gUnits[2].controlnet = 2
    /\ \A i \in 1..2 : gUnits[i].image.width = 16 /\ gUnits[i].image.height = 8

-----------------------------------------------------------------------------
(* The shape of a fresh latent, under SpecLatents.                         *)

\* The generator argument prepare_latents was called with.
PlGeneratorUsed ==
    IF plRes.seedUsed = <<>> THEN plArgs.generator
    ELSE OneGen(Generator(plRes.seedUsed[1]))

\* A fresh latent has the floor-divided shape and holds the generator's
\* noise multiplied by init_noise_sigma once.
PlFreshLatentScaledOnce ==
    (PlReturned /\ ~PlSupplied) =>
        /\ plRes.latents.shape =
               <<plArgs.batch_size, in_channels,
                 plArgs.height \div vae_scale_factor,
                 plArgs.width \div vae_scale_factor>>
        /\ LET noise == randn_tensor(plRes.latents.shape, PlGeneratorUsed,
                                     get_torch_device, VAE_DTYPE).latents
           IN  /\ Len(plRes.latents.data) = Len(noise.data)
               /\ \A i \in 1..Len(noise.data) :
                     plRes.latents.data[i] = noise.data[i] * plArgs.sigma

\* The latent a generation call draws has the batch of the images it
\* denoises.
GenLatentBatchIsImageBatch ==
    (gLoc.latents # NoneT /\ gLoc.images # <<>>) =>
        gLoc.latents.shape[1] = gLoc.images[1]

\* C15: a latent that prepare_latents draws has the shape (batch_size,
\* channels, height / 8, width / 8) with height and width exact multiples
\* of 8, nothing being cut off by the division, holds noise scaled by
\* init_noise_sigma once, and has the batch of the images then denoised.
C15_FreshLatentOfExactShape ==
    /\ PlFreshLatentScaledOnce
    /\ GenLatentBatchIsImageBatch
    /\ (PlReturned /\ ~PlSupplied) =>
          /\ plArgs.height % vae_scale_factor = 0
          /\ plArgs.width % vae_scale_factor = 0
          /\ plRes.latents.shape[3] * vae_scale_factor = plArgs.height
          /\ plRes.latents.shape[4] * vae_scale_factor = plArgs.width

=============================================================================
